---- MODULE Spec2Model ----
(***************************************************************************)
(* Model of src/main.py: the yoga pose image generator.  One run of main() *)
(* reads the pose rows of a sheet, and for each row with a title crafts a  *)
(* prompt, asks the selected provider for an image, uploads it to Drive,   *)
(* makes it public and writes an IMAGE formula into column E of the sheet. *)
(* Strings are sequences of tokens (characters for titles, URL parts for   *)
(* links); every external call is one step whose result is chosen by the   *)
(* environment.                                                            *)
(***************************************************************************)
EXTENDS Integers, Sequences, FiniteSets, TLC

VARIABLES
    args_api,      \* the --api command line argument
    env,           \* names of the environment variables that are set
    sheetValues,   \* the sheet as the Sheets API returns it: header row, then data rows (titles)
    pc,            \* position of main()
    error,         \* the uncaught exception that ended the run, "none" while there is none
    api,           \* main's api (args.api), "unset" before parse_arguments returned
    yoga_poses,    \* main's yoga_poses: the titles of the data rows
    i,             \* main's loop index (zero-based, as enumerate yields it)
    events,        \* what main() did so far, in order: calls that returned and its own log lines
    lookups,       \* names of the environment variables os.getenv was asked for
    requests,      \* HTTP requests the current generate_image call sent to the provider
    attempt,       \* generate_image_ideogram: polling iterations begun
    polls,         \* generate_image_ideogram: status GETs sent
    waited,        \* generate_image_ideogram: time slept
    firstCompleted,\* position of the first status response with state "completed", 0 if none yet
    fetches,       \* generate_image_ideogram: image GETs sent
    gen_error,     \* the error the provider function logged, "" if none
    image_data,    \* what generate_image returned: "unset", "None", "empty" (b'') or "png"
    file,          \* upload_image_to_drive: the created file's webContentLink, <<"unset">> before
    pose_data,     \* main's pose_data: the dict of the current row, header name -> cell text
    prompt,        \* main's prompt, <<"unset">> before craft_prompt returned
    image_url,     \* main's image_url, <<"unset">> before upload_image_to_drive returned
    generation_id, \* generate_image_ideogram: result.get("generation_id"): "unset", "None" or "id"
    img_status,    \* generate_image_ideogram: img_response.status_code: "unset", "200" or "not_200"
    firstFailed    \* the first status response of the current call had the state "failed"

vars == <<args_api, env, sheetValues, pc, error, api, yoga_poses, i, events, lookups,
          requests, attempt, polls, waited, firstCompleted, fetches, gen_error,
          image_data, file, pose_data, prompt, image_url, generation_id, img_status,
          firstFailed>>

------------------------------------------------------------------------------
(* Bounds of the model *)

MaxRows == 3

------------------------------------------------------------------------------
(* Program constants *)

max_attempts == 30

PollInterval == 2

Choices == {"openai", "ideogram", "stability"}

ApiArgs == Choices \cup {"midjourney"}

EnvKeys == {"OPENAI_API_KEY", "IDEOGRAM_API_KEY", "STABILITY_API_KEY"}

Header == <<"Content Title">>

Titles == { <<>>, <<"W", "a", "r", "r", "i", "o", "r", " ", "I", "I">> }

Links == { <<>>,
           <<"https://drive.google.com/uc", "?", "id=F", "&", "export=download">>,
           <<"https://drive.google.com/uc", "?", "export=download", "&", "id=F">> }

DownloadParam == <<"&", "export=download">>

\* cell texts of the three optional columns, and the column names
Styles == { <<>>, <<"f", "l", "a", "t">>, <<" ">>, <<"N", "o", "n", "e">> }

BgColors == { <<>>, <<"w", "h", "i", "t", "e">>, <<" ">>,
              <<"s", "k", "y", " ", "b", "l", "u", "e">> }

Themes == { <<>>, <<"c", "a", "l", "m">>,
            <<"c", "a", "l", "m", " ", " ", " ", "s", "e", "a">>,
            <<"N", "o", "n", "e", "t", "h", "e", "l", "e", "s", "s">> }

Columns == {"Content Title", "Image Style", "Background Color", "Theme Description"}

------------------------------------------------------------------------------
(* Pure helpers: Python's str operations on token sequences *)

RECURSIVE SeqsUpTo(_, _)
SeqsUpTo(S, n) ==
    IF n = 0 THEN { <<>> }
    ELSE LET shorter == SeqsUpTo(S, n - 1)
         IN  shorter \cup { Append(s, x) : s \in shorter, x \in S }

StartsWith(s, old) ==
    /\ Len(old) <= Len(s)
    /\ SubSeq(s, 1, Len(old)) = old

\* str.replace(old, new) for a non-empty old: leftmost non-overlapping occurrences
RECURSIVE Replace(_, _, _)
Replace(s, old, new) ==
    IF s = <<>> THEN <<>>
    ELSE IF StartsWith(s, old)
         THEN new \o Replace(SubSeq(s, Len(old) + 1, Len(s)), old, new)
         ELSE <<Head(s)>> \o Replace(Tail(s), old, new)

LowerChar(c) ==
    CASE c = "W" -> "w"
      [] c = "I" -> "i"
      [] OTHER   -> c

Lower(s) == [k \in 1..Len(s) |-> LowerChar(s[k])]

Ev(op, idx, row, text) == [op |-> op, i |-> idx, row |-> row, text |-> text]

------------------------------------------------------------------------------
(* Pure parts of the program *)

\* parse_arguments: argparse accepts --api only when it is one of the choices
ValidChoice(a) == a \in Choices

\* the environment variable each generate_image_<api> reads
KeyOf(a) ==
    CASE a = "openai"    -> "OPENAI_API_KEY"
      [] a = "ideogram"  -> "IDEOGRAM_API_KEY"
      [] a = "stability" -> "STABILITY_API_KEY"

\* the key check left out: the request is sent with whatever os.getenv gave
HasKey_Always(k) == TRUE

\* "if not api_key": the variable is set (and not empty)
HasKey(k) == k \in env

\* generate_image: the function the api name selects, "unsupported" for an unknown name
Dispatch(a) == IF a \in Choices THEN a ELSE "unsupported"

\* the skip of rows without a title left out
SkipRow_Never(pose_name) == FALSE

\* main: "if not pose_name: continue"
SkipRow(pose_name) == pose_name = <<>>

\* the loop stays on the row it just handled
NextIndex_Stay(idx) == idx

\* main: enumerate moves on to the next row
NextIndex(idx) == idx + 1

\* "if image_data is not None:" takes empty bytes for an image
Truthy_NotNone(data) == data # "None"

\* main: "if image_data:" (None and b'' are falsy)
Truthy(data) == data = "png"

\* "while True": the loop has no bound
MorePolls_Forever(a) == TRUE

\* range(max_attempts + 1): one iteration too many
MorePolls_OneMore(a) == a <= max_attempts

\* generate_image_ideogram: "for attempt in range(max_attempts)" has another iteration
MorePolls(a) == a < max_attempts

\* the break indented under "if image_url:": a completed status without a URL polls on
AfterStatus_BreakOnlyWithUrl(state, has_url) ==
    IF state = "completed" /\ has_url THEN "ideogram_fetch" ELSE "ideogram_poll"

\* a status "failed" ends the polling at once
AfterStatus_FailedStops(state, has_url) ==
    CASE state = "completed" -> (IF has_url THEN "ideogram_fetch" ELSE "ideogram_end")
      [] state = "failed"    -> "ideogram_end"
      [] OTHER               -> "ideogram_poll"

\* generate_image_ideogram: where the loop goes after a status response
AfterStatus(state, has_url) ==
    IF state = "completed"
    THEN (IF has_url THEN "ideogram_fetch" ELSE "ideogram_end")
    ELSE "ideogram_poll"

\* get_sheet_data: the dict of a data row under the header row (one column, the title)
PoseDict(title) == [key \in {Header[1]} |-> title]

\* dict.get(key, '')
Get(d, key) == IF key \in DOMAIN d THEN d[key] ELSE <<>>

\* str.strip() of leading and of trailing blanks
RECURSIVE LStrip(_)
LStrip(s) == IF s # <<>> /\ Head(s) = " " THEN LStrip(Tail(s)) ELSE s

RECURSIVE RStrip(_)
RStrip(s) ==
    IF s # <<>> /\ s[Len(s)] = " " THEN RStrip(SubSeq(s, 1, Len(s) - 1)) ELSE s

Strip(s) == RStrip(LStrip(s))

NoneText == <<"N", "o", "n", "e">>

\* craft_prompt: the f-string, then replace('None', ''), replace('  ', ' ') and strip(),
\* each result a value of its own (a singleton set's element) before the next call
craft_prompt(d) ==
    LET style    == Get(d, "Image Style")
        bg_color == Get(d, "Background Color")
        theme    == Get(d, "Theme Description")
        pose     == Get(d, "Content Title")
        text     == style \o <<" ">> \o pose
                    \o <<" ", "y", "o", "g", "a", " ", "p", "o", "s", "e", ",", " ">>
                    \o bg_color
                    \o <<" ", "b", "a", "c", "k", "g", "r", "o", "u", "n", "d", ".", " ">>
                    \o theme
    IN  CHOOSE cleaned \in
            { Strip(collapsed) :
                collapsed \in { Replace(without, <<" ", " ">>, <<" ">>) :
                    without \in { Replace(filled, NoneText, <<>>) : filled \in {text} } } } :
            TRUE

\* the file name without lower(): the title's capitals stay
Filename_NoLower(pose_name) ==
    <<"yoga_">> \o Replace(pose_name, <<" ">>, <<"_">>) \o <<".png">>

\* main: the file name of a pose's image
Filename(pose_name) ==
    <<"yoga_">> \o Replace(Lower(pose_name), <<" ">>, <<"_">>) \o <<".png">>

\* upload_image_to_drive: the link it returns for the created file's webContentLink
DownloadLink(webContentLink) == Replace(webContentLink, DownloadParam, <<>>)

\* update_sheet_with_image: the formula and the row of the range Sheet1!E<row>
Formula(url) == <<"=IMAGE(\"">> \o url \o <<"\", 3)">>

\* the range built from the row argument as it is
RangeRow_NoOffset(row) == row

RangeRow(row) == row + 1

\* main passes i+1 as the row of the pose at index i
RowArg(idx) == idx + 1

------------------------------------------------------------------------------
(* The run *)

Init ==
    /\ args_api \in ApiArgs
    /\ env \in SUBSET EnvKeys
    /\ sheetValues \in { <<>> } \cup { <<Header>> \o rows : rows \in SeqsUpTo(Titles, MaxRows) }
    /\ pc = "parse_arguments"
    /\ error = "none"
    /\ api = "unset"
    /\ yoga_poses = <<>>
    /\ i = 0
    /\ events = <<>>
    /\ lookups = {}
    /\ requests = 0
    /\ attempt = 0
    /\ polls = 0
    /\ waited = 0
    /\ firstCompleted = 0
    /\ fetches = 0
    /\ gen_error = ""
    /\ image_data = "unset"
    /\ file = <<"unset">>
    /\ pose_data = <<>>
    /\ prompt = <<"unset">>
    /\ image_url = <<"unset">>
    /\ generation_id = "unset"
    /\ img_status = "unset"
    /\ firstFailed = FALSE

inputs == <<args_api, env, sheetValues>>

call == <<requests, attempt, polls, waited, firstCompleted, fetches, gen_error, image_data>>

mainLocals == <<pose_data, prompt, image_url>>

ideogramLocals == <<generation_id, img_status, firstFailed>>

\* an exception nobody catches ends the run
Raise(exc) ==
    /\ error' = exc
    /\ pc' = "exit"

\* control moves on in main or in a provider function
Goto(label) ==
    /\ pc' = label
    /\ error' = error

\* the provider functions without their try/except: an exception reaches main
Return_Uncaught(evs, data, logged) ==
    IF logged = "exception"
    THEN /\ error' = "Exception in generate_image"
         /\ pc' = "exit"
         /\ events' = evs
         /\ UNCHANGED <<image_data, gen_error>>
    ELSE /\ image_data' = data
         /\ gen_error' = logged
         /\ events' = Append(evs, Ev("returned", i, 0, <<data>>))
         /\ pc' = "branch"
         /\ error' = error

\* generate_image_<api> returns data to main, having logged an error or nothing;
\* evs are the events up to the return
Return(evs, data, logged) ==
    /\ image_data' = data
    /\ gen_error' = logged
    /\ events' = Append(evs, Ev("returned", i, 0, <<data>>))
    /\ Goto("branch")

ParseArguments ==
    /\ pc = "parse_arguments"
    /\ IF ValidChoice(args_api)
       THEN /\ api' = args_api
            /\ Goto("authenticate_google")
       ELSE /\ api' = api
            /\ Raise("SystemExit")
    /\ UNCHANGED <<inputs, mainLocals, ideogramLocals, yoga_poses, i, events, lookups, call, file>>

AuthenticateGoogle ==
    /\ pc = "authenticate_google"
    /\ \E ok \in BOOLEAN :
         IF ok THEN Goto("get_sheet_data")
               ELSE Raise("FileNotFoundError")
    /\ UNCHANGED <<inputs, mainLocals, ideogramLocals, api, yoga_poses, i, events, lookups, call, file>>

GetSheetData ==
    /\ pc = "get_sheet_data"
    /\ \E ok \in BOOLEAN :
         IF ok
         THEN /\ yoga_poses' = IF sheetValues = <<>> THEN <<>> ELSE Tail(sheetValues)
              /\ Goto("loop")
         ELSE /\ yoga_poses' = yoga_poses
              /\ Raise("HttpError in values.get")
    /\ UNCHANGED <<inputs, mainLocals, ideogramLocals, api, i, events, lookups, call, file>>

ForNext ==
    /\ pc = "loop"
    /\ i < Len(yoga_poses)
    /\ LET pose_name == yoga_poses[i + 1]
       IN  IF SkipRow(pose_name)
           THEN i' = NextIndex(i) /\ Goto("loop")
           ELSE i' = i /\ Goto("craft_prompt")
    /\ pose_data' = PoseDict(yoga_poses[i + 1])
    /\ UNCHANGED <<inputs, prompt, image_url, ideogramLocals, api, yoga_poses, events, lookups, call, file>>

ForEnd ==
    /\ pc = "loop"
    /\ i >= Len(yoga_poses)
    /\ events' = Append(events, Ev("log", i, 0, <<"Process completed!">>))
    /\ Goto("done")
    /\ UNCHANGED <<inputs, mainLocals, ideogramLocals, api, yoga_poses, i, lookups, call, file>>

CraftPrompt ==
    /\ pc = "craft_prompt"
    /\ events' = Append(events, Ev("craft_prompt", i, 0, <<>>))
    /\ prompt' = craft_prompt(pose_data)
    /\ Goto("generate_image")
    /\ UNCHANGED <<inputs, pose_data, image_url, ideogramLocals, api, yoga_poses, i, lookups, call, file>>

(* generate_image: dispatch, then the variant looks up its API key *)
GenerateImage ==
    /\ pc = "generate_image"
    /\ LET called == Append(events, Ev("generate_image", i, 0, <<>>))
       IN  IF Dispatch(api) = "unsupported"
           THEN /\ lookups' = lookups
                /\ Return(called, "None", "unsupported_api")
           ELSE /\ lookups' = lookups \cup {KeyOf(api)}
                /\ IF HasKey(KeyOf(api))
                   THEN /\ events' = called
                        /\ Goto(Dispatch(api) \o "_post")
                        /\ UNCHANGED <<image_data, gen_error>>
                   ELSE Return(called, "None", "no_api_key")
    /\ UNCHANGED <<inputs, mainLocals, ideogramLocals, api, yoga_poses, i, requests, attempt, polls, waited,
                   firstCompleted, fetches, file>>

(* generate_image_openai: one POST; every exception is caught and logged *)
OpenAIPost ==
    /\ pc = "openai_post"
    /\ requests' = requests + 1
    /\ \E r \in {"raise", "png", "empty"} :
         IF r = "raise" THEN Return(events, "None", "exception")
                        ELSE Return(events, r, "")
    /\ UNCHANGED <<inputs, mainLocals, ideogramLocals, api, yoga_poses, i, lookups, attempt, polls,
                   waited, firstCompleted, fetches, file>>

(* generate_image_stability: one POST; the first artifact is decoded *)
StabilityPost ==
    /\ pc = "stability_post"
    /\ requests' = requests + 1
    /\ \E r \in {"raise", "no_artifacts", "png", "empty"} :
         CASE r = "raise"        -> Return(events, "None", "exception")
           [] r = "no_artifacts" -> Return(events, "None", "no_artifacts")
           [] OTHER              -> Return(events, r, "")
    /\ UNCHANGED <<inputs, mainLocals, ideogramLocals, api, yoga_poses, i, lookups, attempt, polls,
                   waited, firstCompleted, fetches, file>>

(* the submitting POST without the check of the generation id *)
IdeogramPost_NoIdCheck ==
    /\ pc = "ideogram_post"
    /\ requests' = requests + 1
    /\ \E r \in {"raise", "no_generation_id", "generation_id"} :
         IF r = "raise"
         THEN /\ Return(events, "None", "exception")
              /\ generation_id' = generation_id
         ELSE /\ Goto("ideogram_poll")
              /\ generation_id' = IF r = "generation_id" THEN "id" ELSE "None"
              /\ UNCHANGED <<image_data, gen_error, events>>
    /\ UNCHANGED <<inputs, mainLocals, img_status, firstFailed, api, yoga_poses, i, lookups,
                   attempt, polls, waited, firstCompleted, fetches, file>>

(* generate_image_ideogram: the submitting POST *)
IdeogramPost ==
    /\ pc = "ideogram_post"
    /\ requests' = requests + 1
    /\ \E r \in {"raise", "no_generation_id", "generation_id"} :
         CASE r = "raise"            -> /\ Return(events, "None", "exception")
                                        /\ generation_id' = generation_id
           [] r = "no_generation_id" -> /\ Return(events, "None", "no_generation_id")
                                        /\ generation_id' = "None"
           [] OTHER -> /\ Goto("ideogram_poll")
                       /\ generation_id' = "id"
                       /\ UNCHANGED <<image_data, gen_error, events>>
    /\ UNCHANGED <<inputs, mainLocals, img_status, firstFailed, api, yoga_poses, i, lookups, attempt, polls,
                   waited, firstCompleted, fetches, file>>

(* generate_image_ideogram: one iteration of the polling loop, sleep then GET *)
IdeogramPoll ==
    /\ pc = "ideogram_poll"
    /\ MorePolls(attempt)
    /\ waited' = waited + PollInterval
    /\ polls' = polls + 1
    /\ requests' = requests + 1
    /\ \E r \in {"raise", "status"} :
         IF r = "raise"
         THEN /\ Return(events, "None", "exception")
              /\ UNCHANGED <<attempt, firstCompleted, firstFailed>>
         ELSE \E state \in {"processing", "failed", "completed"}, has_url \in BOOLEAN :
                /\ Goto(AfterStatus(state, has_url))
                /\ attempt' = attempt + 1
                /\ firstCompleted' = IF state = "completed" /\ firstCompleted = 0
                                     THEN polls + 1 ELSE firstCompleted
                /\ firstFailed' = IF polls = 0 THEN state = "failed" ELSE firstFailed
                /\ UNCHANGED <<image_data, gen_error, events>>
    /\ UNCHANGED <<inputs, mainLocals, generation_id, img_status, api, yoga_poses, i, lookups, fetches, file>>

(* generate_image_ideogram: the GET of the image the completed status names *)
IdeogramFetch ==
    /\ pc = "ideogram_fetch"
    /\ fetches' = fetches + 1
    /\ requests' = requests + 1
    /\ \E r \in {"raise", "not_200", "png", "empty"} :
         CASE r = "raise"   -> /\ Return(events, "None", "exception")
                               /\ img_status' = img_status
           [] r = "not_200" -> /\ Goto("ideogram_end")
                               /\ img_status' = "not_200"
                               /\ UNCHANGED <<image_data, gen_error, events>>
           [] OTHER         -> /\ Return(events, r, "")
                               /\ img_status' = "200"
    /\ UNCHANGED <<inputs, mainLocals, generation_id, firstFailed, api, yoga_poses, i, lookups, attempt, polls,
                   waited, firstCompleted, file>>

(* generate_image_ideogram: after the loop, by exhaustion or by break *)
IdeogramEnd ==
    /\ \/ pc = "ideogram_end"
       \/ pc = "ideogram_poll" /\ ~MorePolls(attempt)
    /\ Return(events, "None", "timed_out_or_failed")
    /\ UNCHANGED <<inputs, mainLocals, ideogramLocals, api, yoga_poses, i, lookups, requests, attempt,
                   polls, waited, firstCompleted, fetches, file>>

ResetCall ==
    /\ requests' = 0
    /\ attempt' = 0
    /\ polls' = 0
    /\ waited' = 0
    /\ firstCompleted' = 0
    /\ fetches' = 0
    /\ gen_error' = ""
    /\ generation_id' = "unset"
    /\ img_status' = "unset"
    /\ firstFailed' = FALSE

(* main: "if image_data:" and its else branch *)
Branch ==
    /\ pc = "branch"
    /\ IF Truthy(image_data)
       THEN /\ Goto("files_create")
            /\ UNCHANGED <<events, i, image_data>>
       ELSE /\ events' = Append(events, Ev("failed", i, 0, <<>>))
            /\ i' = NextIndex(i)
            /\ image_data' = "unset"
            /\ Goto("loop")
    /\ ResetCall
    /\ UNCHANGED <<inputs, mainLocals, api, yoga_poses, lookups, file>>

(* upload_image_to_drive: files().create(...).execute() *)
FilesCreate ==
    /\ pc = "files_create"
    /\ \E ok \in BOOLEAN :
         IF ok
         THEN \E webContentLink \in Links :
                /\ file' = webContentLink
                /\ events' = Append(events, Ev("files_create", i, 0, Filename(yoga_poses[i + 1])))
                /\ Goto("permissions_create")
         ELSE /\ Raise("HttpError in files.create")
              /\ UNCHANGED <<file, events>>
    /\ UNCHANGED <<inputs, mainLocals, ideogramLocals, api, yoga_poses, i, lookups, call>>

(* the permission grant in a try/except that swallows its error *)
PermissionsCreate_Swallow ==
    /\ pc = "permissions_create"
    /\ \E ok \in BOOLEAN :
         /\ events' = IF ok
                       THEN events \o << Ev("permissions_create", i, 0, <<>>),
                                         Ev("uploaded", i, 0, DownloadLink(file)) >>
                       ELSE Append(events, Ev("uploaded", i, 0, DownloadLink(file)))
         /\ image_url' = DownloadLink(file)
         /\ Goto("update_sheet")
    /\ UNCHANGED <<inputs, pose_data, prompt, ideogramLocals, api, yoga_poses, i, lookups,
                   call, file>>

(* upload_image_to_drive: permissions().create(...).execute(), then the link is returned *)
PermissionsCreate ==
    /\ pc = "permissions_create"
    /\ \E ok \in BOOLEAN :
         IF ok
         THEN /\ events' = events \o
                   << Ev("permissions_create", i, 0, <<>>),
                      Ev("uploaded", i, 0, DownloadLink(file)) >>
              /\ image_url' = DownloadLink(file)
              /\ Goto("update_sheet")
         ELSE /\ Raise("HttpError in permissions.create")
              /\ UNCHANGED <<events, image_url>>
    /\ UNCHANGED <<inputs, pose_data, prompt, ideogramLocals, api, yoga_poses, i, lookups, call, file>>

(* update_sheet_with_image writes the cell; main logs the success *)
UpdateSheet ==
    /\ pc = "update_sheet"
    /\ \E ok \in BOOLEAN :
             IF ok
             THEN /\ events' = events \o
                       << Ev("update", i, RangeRow(RowArg(i)), Formula(image_url)),
                          Ev("success", i, 0, <<>>) >>
                  /\ i' = NextIndex(i)
                  /\ image_data' = "unset"
                  /\ file' = <<"unset">>
                  /\ Goto("loop")
             ELSE /\ Raise("HttpError in values.update")
                  /\ UNCHANGED <<events, i, image_data, file>>
    /\ UNCHANGED <<inputs, mainLocals, ideogramLocals, api, yoga_poses, lookups, requests, attempt, polls, waited,
                   firstCompleted, fetches, gen_error>>

Next ==
    \/ ParseArguments
    \/ AuthenticateGoogle
    \/ GetSheetData
    \/ ForNext
    \/ ForEnd
    \/ CraftPrompt
    \/ GenerateImage
    \/ OpenAIPost
    \/ StabilityPost
    \/ IdeogramPost
    \/ IdeogramPoll
    \/ IdeogramFetch
    \/ IdeogramEnd
    \/ Branch
    \/ FilesCreate
    \/ PermissionsCreate
    \/ UpdateSheet

Spec == Init /\ [][Next]_vars

\* every external call returns, so that the step main is at is taken
FairSpec == Spec /\ WF_vars(Next)

------------------------------------------------------------------------------
(* craft_prompt on its own: main is about to call it for a row with a     *)
(* title, of a sheet that has all four columns or only the title column   *)

PoseRows ==
    { [key \in Columns |->
          CASE key = "Content Title"     -> title
            [] key = "Image Style"       -> style
            [] key = "Background Color"  -> bg_color
            [] key = "Theme Description" -> theme] :
        title \in Titles \ {<<>>}, style \in Styles, bg_color \in BgColors,
        theme \in Themes }
    \cup { PoseDict(title) : title \in Titles \ {<<>>} }

PromptInit ==
    /\ args_api = "ideogram"
    /\ env = {}
    /\ sheetValues = <<>>
    /\ pc = "craft_prompt"
    /\ error = "none"
    /\ api = "ideogram"
    /\ yoga_poses = <<>>
    /\ i = 0
    /\ events = <<>>
    /\ lookups = {}
    /\ requests = 0
    /\ attempt = 0
    /\ polls = 0
    /\ waited = 0
    /\ firstCompleted = 0
    /\ fetches = 0
    /\ gen_error = ""
    /\ image_data = "unset"
    /\ file = <<"unset">>
    /\ pose_data \in PoseRows
    /\ prompt = <<"unset">>
    /\ image_url = <<"unset">>
    /\ generation_id = "unset"
    /\ img_status = "unset"
    /\ firstFailed = FALSE

PromptNext == CraftPrompt

PromptSpec == PromptInit /\ [][PromptNext]_vars

------------------------------------------------------------------------------
(* Reading the record of a run *)

\* zero-based indices of the data rows
RowIndices == 0 .. (Len(yoga_poses) - 1)

TitleOf(idx) == yoga_poses[idx + 1]

\* how often main did op for the row at index idx
Count(op, idx) ==
    Cardinality({ k \in DOMAIN events : events[k].op = op /\ events[k].i = idx })

\* how often the cell in column E of sheet row r was written
WritesTo(r) ==
    Cardinality({ k \in DOMAIN events : events[k].op = "update" /\ events[k].row = r })

\* main is done with the row at index idx
Left(idx) == i > idx

\* generate_image returned a falsy value (None or b'') for the row at index idx
GenerationFailed(idx) ==
    \E k \in DOMAIN events :
        /\ events[k].op = "returned"
        /\ events[k].i = idx
        /\ events[k].text \in { <<"None">>, <<"empty">> }

StorageErrors ==
    { "HttpError in files.create", "HttpError in permissions.create",
      "HttpError in values.update" }

SetupErrors == { "SystemExit", "FileNotFoundError", "HttpError in values.get" }

RowOps == { "craft_prompt", "generate_image", "returned", "files_create",
            "permissions_create", "uploaded", "update", "success", "failed" }

------------------------------------------------------------------------------
(* Claims *)

\* C1: a failed generation (provider error or polling timeout) never ends the
\* run: no exception of a provider function reaches main, the step after a
\* falsy return records the failure and goes on to the next row, every row with
\* a title that main has passed got exactly one generation attempt, and a run
\* ends early only by a setup, storage or sheet error.
C1_GenerationFailureContinues ==
    /\ error \in {"none"} \cup SetupErrors \cup StorageErrors
    /\ error \in StorageErrors => /\ image_data = "png"
                                  /\ ~GenerationFailed(i)
    /\ \A idx \in RowIndices :
         /\ GenerationFailed(idx) /\ ~(pc = "branch" /\ i = idx) => Left(idx)
         /\ Left(idx) /\ TitleOf(idx) # <<>> => Count("generate_image", idx) = 1
    /\ pc = "done" => i = Len(yoga_poses)

C1_Witness ==
    /\ pc = "done"
    /\ \E idx \in RowIndices, later \in RowIndices :
         /\ idx < later
         /\ GenerationFailed(idx)
         /\ Count("generate_image", later) = 1

\* C2 (as claimed): a storage or sheet-write failure never escapes the row:
\* the run never ends with the exception of an upload, a permission grant or a
\* sheet update.
C2_StorageFailureIsRowLocal == error \notin StorageErrors

\* C3: a row whose generation failed has, once main left it, exactly one
\* recorded failure, and at no time an upload, a permission grant, a sheet
\* write of its own or a write to its sheet row.
C3_FailedGenerationOnlyRecordsFailure ==
    \A idx \in RowIndices :
        GenerationFailed(idx) =>
            /\ Count("failed", idx) = IF Left(idx) THEN 1 ELSE 0
            /\ Count("files_create", idx) = 0
            /\ Count("permissions_create", idx) = 0
            /\ Count("update", idx) = 0
            /\ Count("success", idx) = 0
            /\ WritesTo(idx + 2) = 0

C3_Witness ==
    /\ pc = "done"
    /\ \E idx \in RowIndices, other \in RowIndices :
         /\ GenerationFailed(idx)
         /\ Count("failed", idx) = 1
         /\ Count("update", other) = 1

\* C4: a row with an empty title has no effect and no outcome: main records
\* nothing for it (no prompt, no generation, no upload, no sheet write, no
\* failure) and nobody writes its sheet row.
C4_EmptyTitleSkipped ==
    \A idx \in RowIndices :
        TitleOf(idx) = <<>> =>
            /\ \A k \in DOMAIN events : events[k].op \in RowOps => events[k].i # idx
            /\ WritesTo(idx + 2) = 0
            /\ i = idx => pc \in {"loop", "done"} /\ requests = 0

C4_Witness ==
    /\ pc = "done"
    /\ \E idx \in RowIndices, other \in RowIndices :
         /\ TitleOf(idx) = <<>>
         /\ idx < other
         /\ Count("update", other) = 1

\* C5: in every state each row has at most one generation call, at most one
\* upload, at most one permission grant and at most one sheet write, and no
\* sheet row is written twice.
C5_AtMostOnePerRow ==
    \A idx \in RowIndices :
        /\ Count("craft_prompt", idx) <= 1
        /\ Count("generate_image", idx) <= 1
        /\ Count("returned", idx) <= 1
        /\ Count("files_create", idx) <= 1
        /\ Count("permissions_create", idx) <= 1
        /\ Count("update", idx) <= 1
        /\ WritesTo(idx + 2) <= 1

C5_Witness ==
    /\ pc = "done"
    /\ Len(yoga_poses) >= 2
    /\ \A idx \in RowIndices :
         Count("generate_image", idx) = 1 /\ Count("update", idx) = 1

\* C6: the Ideogram provider sends at most 30 status polls per generation;
\* when the call returns without a transport error after polling, the number
\* of polls is the position of the first "completed" response if there was
\* one within 30 polls, else 30, and then the call fails with the timeout
\* error; a first "completed" at poll 30 whose image is fetched succeeds.
C6_PollBudget ==
    /\ polls <= max_attempts
    /\ firstCompleted <= polls
    /\ pc = "branch" /\ polls > 0 /\ gen_error # "exception" =>
         /\ polls = IF firstCompleted # 0 THEN firstCompleted ELSE max_attempts
         /\ firstCompleted = 0 =>
              image_data = "None" /\ gen_error = "timed_out_or_failed"
         /\ gen_error = "" => firstCompleted # 0 /\ fetches = 1

C6_Witness ==
    /\ pc = "branch"
    /\ polls = 30
    /\ firstCompleted = 30
    /\ image_data = "png"

\* C7: every sheet write for the data row at index i goes to column E of sheet
\* row i + 2, the sheet row that holds this data row, whatever happened to
\* the rows before it.
C7_WriteTargetsRowPlusTwo ==
    \A k \in DOMAIN events :
        events[k].op = "update" =>
            /\ events[k].row = events[k].i + 2
            /\ events[k].row \in DOMAIN sheetValues
            /\ sheetValues[events[k].row] = TitleOf(events[k].i)

C7_Witness ==
    /\ Len(yoga_poses) = 3
    /\ \E k \in DOMAIN events :
         /\ events[k].op = "update" /\ events[k].i = 2 /\ events[k].row = 4
         /\ Count("update", 0) = 1 /\ WritesTo(2) = 1
         /\ Count("update", 1) = 0 /\ WritesTo(3) = 0

\* the selected provider cannot work: its name is not one of the three, or its
\* API key is not set
ConfigurationFailure ==
    \/ args_api \notin Choices
    \/ args_api \in Choices /\ KeyOf(args_api) \notin env

\* C8 (as claimed): with a configuration failure the run aborts before any row
\* is processed: main iterates no row and records nothing for any row.
C8_ConfigurationFailureAbortsBeforeRows ==
    ConfigurationFailure =>
        /\ pc \notin {"craft_prompt", "generate_image", "branch"}
        /\ \A k \in DOMAIN events : events[k].op \notin RowOps

\* C9: when the API key of the selected provider is missing, generate_image
\* returns None at once: no request is sent, no exception reaches main, and
\* the only environment variable ever looked up is that provider's key.
C9_MissingKeyReturnsNone ==
    /\ lookups \subseteq (IF api \in Choices THEN {KeyOf(api)} ELSE {})
    /\ api \in Choices /\ KeyOf(api) \notin env =>
         /\ requests = 0
         /\ pc \notin {"openai_post", "stability_post", "ideogram_post",
                       "ideogram_poll", "ideogram_fetch", "ideogram_end"}
         /\ error \in {"none"} \cup SetupErrors
         /\ pc = "branch" => image_data = "None" /\ gen_error = "no_api_key"
         /\ \A idx \in RowIndices :
              Count("generate_image", idx) = 1 /\ (idx # i \/ pc = "branch")
                  => GenerationFailed(idx)

C9_Witness ==
    /\ pc = "branch"
    /\ api = "stability"
    /\ env = {"OPENAI_API_KEY", "IDEOGRAM_API_KEY"}
    /\ lookups = {"STABILITY_API_KEY"}
    /\ image_data = "None"
    /\ i = 1

\* rows main reported as processed, and as failed
Processed == Cardinality({ idx \in RowIndices : Count("success", idx) > 0 })

Failed == Cardinality({ idx \in RowIndices : Count("failed", idx) > 0 })

\* C10 (as claimed): at the end of the batch the run has emitted a summary
\* that gives the number of rows processed and the number of rows failed.
C10_SummaryOfCounts ==
    pc = "done" =>
        \E k \in DOMAIN events :
            /\ events[k].op = "log"
            /\ \E m, n \in DOMAIN events[k].text :
                 /\ m # n
                 /\ events[k].text[m] = ToString(Processed)
                 /\ events[k].text[n] = ToString(Failed)

\* main did op for the row at index idx before its k-th event
Before(op, k, idx) ==
    \E j \in 1 .. (k - 1) : events[j].op = op /\ events[j].i = idx

\* C11: within a row the effects come in the order prompt, generation, upload,
\* permission grant, returned link, sheet write: each of them has the one
\* before it earlier in the same row, so no permission is granted before the
\* upload returned and no cell is written before upload and grant succeeded.
C11_EffectsInOrder ==
    \A k \in DOMAIN events :
        LET e == events[k] IN
        /\ e.op = "generate_image"     => Before("craft_prompt", k, e.i)
        /\ e.op = "returned"           => Before("generate_image", k, e.i)
        /\ e.op = "files_create"       => Before("returned", k, e.i) /\ ~GenerationFailed(e.i)
        /\ e.op = "permissions_create" => Before("files_create", k, e.i)
        /\ e.op = "uploaded"           => Before("permissions_create", k, e.i)
        /\ e.op = "update"             => /\ Before("files_create", k, e.i)
                                          /\ Before("permissions_create", k, e.i)
                                          /\ Before("uploaded", k, e.i)

C11_Witness ==
    \E k \in DOMAIN events :
        /\ events[k].op = "update"
        /\ events[k].i = 1
        /\ Count("permissions_create", 1) = 1
        /\ Count("update", 0) = 1

Capitals == {"W", "I"}

\* the text of the first event op of the row at index idx
TextOf(op, idx) ==
    events[CHOOSE k \in DOMAIN events :
               /\ events[k].op = op /\ events[k].i = idx
               /\ ~Before(op, k, idx)].text

\* C12: the file stored for a row is named "yoga_", then the title with every
\* capital in lower case and every blank as "_", then ".png" ("Warrior II"
\* gives yoga_warrior_ii.png), and the value written to the sheet is the IMAGE
\* formula around exactly the link the upload of that row returned.
C12_FilenameAndFormula ==
    \A k \in DOMAIN events :
        LET e     == events[k]
            title == TitleOf(e.i)
        IN  /\ e.op = "files_create" =>
                 /\ Len(e.text) = Len(title) + 2
                 /\ e.text[1] = "yoga_"
                 /\ e.text[Len(e.text)] = ".png"
                 /\ \A n \in DOMAIN title :
                      /\ e.text[n + 1] \notin Capitals \cup {" "}
                      /\ title[n] = " " => e.text[n + 1] = "_"
                      /\ title[n] \notin Capitals \cup {" "} => e.text[n + 1] = title[n]
                 /\ title = <<"W", "a", "r", "r", "i", "o", "r", " ", "I", "I">> =>
                      e.text = <<"yoga_", "w", "a", "r", "r", "i", "o", "r", "_", "i", "i", ".png">>
            /\ e.op = "update" =>
                 /\ Count("uploaded", e.i) = 1
                 /\ e.text = <<"=IMAGE(\"">> \o TextOf("uploaded", e.i) \o <<"\", 3)">>

C12_Witness ==
    /\ Count("update", 0) = 1
    /\ TextOf("update", 0) =
           <<"=IMAGE(\"", "https://drive.google.com/uc", "?", "id=F", "\", 3)">>
    /\ TextOf("files_create", 0) =
           <<"yoga_", "w", "a", "r", "r", "i", "o", "r", "_", "i", "i", ".png">>
    /\ \E k \in DOMAIN events : events[k].op = "update" /\ events[k].row = 2

\* sub occurs in s
Contains(s, sub) ==
    \E k \in 0 .. (Len(s) - Len(sub)) : SubSeq(s, k + 1, k + Len(sub)) = sub

\* the optional columns of a row that hold a text
PresentFields(d) ==
    { Get(d, key) : key \in Columns } \ { <<>>, <<" ">>, <<"N", "o", "n", "e">> }

\* C13 (as claimed): the prompt craft_prompt returns is normalized: no blank at
\* its start or end, no two blanks in a row, no placeholder text "None", and
\* the text of every field that is present is kept.
C13_PromptNormalized ==
    pc = "generate_image" =>
        /\ prompt # <<>> => prompt[1] # " " /\ prompt[Len(prompt)] # " "
        /\ ~Contains(prompt, <<" ", " ">>)
        /\ ~Contains(prompt, <<"N", "o", "n", "e">>)
        /\ \A field \in PresentFields(pose_data) : Contains(prompt, field)

\* C14 (as claimed): a link that upload_image_to_drive returned never holds
\* the download-forcing parameter export=download, wherever the parameter
\* stood in the query string of the file's webContentLink.
C14_DownloadParamStripped ==
    \A k \in DOMAIN events :
        events[k].op = "uploaded" =>
            \A n \in DOMAIN events[k].text : events[k].text[n] # "export=download"

\* C15: the Ideogram polling stops at the first "completed" status: no poll
\* follows it, at most one image is fetched, and only after it; the call
\* returns the fetched bytes when the fetch answered 200 and None otherwise.
C15_StopsAtFirstCompleted ==
    /\ fetches <= 1
    /\ fetches = 1 => firstCompleted # 0
    /\ firstCompleted # 0 =>
         /\ polls = firstCompleted
         /\ pc \in {"ideogram_fetch", "ideogram_end", "branch"}
         /\ pc = "branch" /\ img_status = "200" =>
              image_data \in {"png", "empty"} /\ gen_error = ""
         /\ pc = "branch" /\ img_status # "200" =>
              image_data = "None" /\ gen_error \in {"timed_out_or_failed", "exception"}

C15_Witness ==
    /\ pc = "branch"
    /\ firstCompleted = 3
    /\ polls = 3
    /\ fetches = 1
    /\ img_status = "not_200"
    /\ image_data = "None"

\* C16: a status other than "completed", "failed" included, never ends the
\* polling: the loop is left early only after a "completed" status, so a call
\* whose first status was "failed" and that saw no "completed" status and no
\* transport error returns None only after all 30 polls.
C16_FailedStatusPollsOn ==
    /\ pc = "ideogram_end" => firstCompleted # 0
    /\ firstFailed /\ polls = 1 => pc = "ideogram_poll" /\ attempt = 1
    /\ firstFailed /\ pc = "branch" /\ firstCompleted = 0 /\ gen_error # "exception" =>
         /\ polls = 30
         /\ waited = 60
         /\ image_data = "None"
         /\ gen_error = "timed_out_or_failed"

C16_Witness ==
    /\ pc = "branch"
    /\ firstFailed
    /\ firstCompleted = 0
    /\ polls = 30
    /\ gen_error = "timed_out_or_failed"

\* C17: when the submit response of Ideogram has no generation id, the call
\* returns None at once: it slept for no time and sent no status poll, no
\* image fetch and no request but the submit.
C17_NoGenerationIdFailsAtOnce ==
    generation_id = "None" =>
        /\ pc = "branch"
        /\ polls = 0
        /\ attempt = 0
        /\ waited = 0
        /\ fetches = 0
        /\ requests = 1
        /\ image_data = "None"
        /\ gen_error = "no_generation_id"

C17_Witness ==
    /\ generation_id = "None"
    /\ pc = "branch"
    /\ polls = 0
    /\ i = 1

\* C18: when every external call returns, the run ends (normally or by an
\* uncaught exception); a row waits at most 30 times 2 time units in the
\* Ideogram polling, and the loop index only moves forward by one row, so no
\* row is visited again.
C18_Terminates ==
    /\ <>(pc \in {"done", "exit"})
    /\ [](waited = 2 * polls /\ waited <= 60)
    /\ [][i' = i \/ i' = i + 1]_vars

C18_Witness ==
    /\ pc = "done"
    /\ i = 3
    /\ Count("failed", 0) = 1
    /\ Count("success", 1) = 1
    /\ Count("failed", 2) = 1

\* C19 (as claimed): every formula written to the sheet embeds a link that is
\* not empty; a file created without a webContentLink gets no IMAGE("", 3).
C19_WrittenUrlNotEmpty ==
    \A k \in DOMAIN events :
        events[k].op = "update" => events[k].text # <<"=IMAGE(\"", "\", 3)">>

====
